---- MODULE Spec2Model ----
(***************************************************************************)
(* Model of NewLambdaSchedule (src/rbfe_controller.py): the projection of  *)
(* the per-lambda parameter files of one edge environment onto a lambda    *)
(* schedule and the generation of the group files (job descriptors).       *)
(*                                                                         *)
(* Lambda values are fixed-point numbers in units of 10^-9; the 8-decimal  *)
(* token f"{v:.8f}" is the value rounded to units of 10^-8 (Fmt8).  The    *)
(* values used never sit on a rounding tie.                                *)
(* A path "{dir}/{token}_{step}.{ext}" is the record [dir, tok, step, ext].*)
(***************************************************************************)
EXTENDS Integers, Sequences, FiniteSets, TLC

VARIABLES
    lambda_schedule,   \* self.lambda_schedule
    ntrials,           \* self.ntrials
    pc,                \* position of the run in the methods of NewLambdaSchedule
    gi,                \* index of the running loop over end_states / lambda_states / ti_states
    gtrial,            \* ntrial of the loop over range(1, ntrials+1)
    out_inputs,        \* the files of {output_dir}/inputs: name -> lines
    emitted,           \* the descriptor lines of the current call, in the order written
    run,               \* number of the current call of write_group_files
    first_out,         \* {output_dir}/inputs as the previous call left it
    src_inputs,        \* the files of {input_dir}/inputs: name -> lines
    files,             \* self.files, in the order glob returned them
    endpoint_files,    \* self.endpoint_files
    lambda_files,      \* self.lambda_files
    li,                \* index of the loop over lambda_schedule[1:-1]
    input_dir_us,      \* whether str(self.input_dir) holds a "_"
    src_tree,          \* the files of input_dir outside inputs/
    out_tree,          \* the files of output_dir outside inputs/
    rw_content,        \* argument content of a call of _rewrite_file
    rw_clambda,        \* argument clambda of that call
    rw_out,            \* the list out_lines that call returned
    rw_pass,           \* 1: first projection of the file, 2: projection of its result
    rw_orig,           \* the lines of the file before the first projection
    rw_first,          \* the lines of the file after the first projection
    rw_sched1,         \* the schedule of the first projection
    edge_inputs,       \* the files of {self.aq}/inputs and {self.com}/inputs: sys -> name -> lines
    which,             \* argument which of change_mdin_params
    new_params,        \* argument new_params: key -> value
    endpoints          \* argument endpoints

compile_vars == <<gtrial, emitted, run, first_out>>

project_vars == <<src_inputs, files, endpoint_files, lambda_files, li, input_dir_us>>

rewrite_vars == <<rw_content, rw_clambda, rw_out, rw_pass, rw_orig, rw_first, rw_sched1>>

tree_vars == <<src_tree, out_tree>>

params_vars == <<edge_inputs, which, new_params, endpoints>>

vars == <<lambda_schedule, ntrials, pc, gi, out_inputs, compile_vars, project_vars, rewrite_vars, tree_vars, params_vars>>

----------------------------------------------------------------------------
\* Bounds of the model

MaxLen == 4          \* longest lambda schedule
MaxTrials == 2       \* largest ntrials
MaxRuns == 2         \* calls of write_group_files on the same target tree
MaxRefLen == 4       \* longest mbar_lambda table of the files of a source tree
MaxTable == 11       \* longest mbar_lambda table handed to _rewrite_file alone
MaxRewriteLen == 5   \* longest schedule of a call of _rewrite_file alone
MaxEdgeLen == 3      \* longest schedule of a whole run of Edge.copy

One == 10^9          \* the value 1.0
Tok0 == 0            \* the token "0.00000000"
Tok1 == 10^8         \* the token "1.00000000"

\* lambda values a schedule file may hold: 0.0, 0.000000004, 0.25, 0.5, 1.0
LambdaValues == {0, 4, 250000000, 500000000, One}

RECURSIVE NonDecreasing(_)
NonDecreasing(n) ==
    IF n = 0 THEN {<<>>}
    ELSE {Append(s, v) : s \in NonDecreasing(n - 1), v \in LambdaValues} \cap
         {s \in [1..n -> LambdaValues] : \A k \in 1..(n - 1) : s[k] <= s[k + 1]}

Schedules == UNION {NonDecreasing(n) : n \in 2..MaxLen}

\* the schedules from 0.0 to 1.0
ValidSchedules(maxlen) ==
    {s \in UNION {NonDecreasing(n) : n \in 2..maxlen} : s[1] = 0 /\ s[Len(s)] = One}

----------------------------------------------------------------------------
\* Formatting and paths

\* f"{lambda_value:.8f}"
Fmt8(v) == (v + 5) \div 10

\* f"t{ntrial}"
TrialTag(n) == "t" \o ToString(n)

Path(dir, v, step, ext) == [dir |-> dir, tok |-> Fmt8(v), step |-> step, ext |-> ext]

\* f"{output_dir}/inputs/{tag}_{step}.groupfile"
GroupFileName(tag, step) == [tag |-> tag, tok |-> 0, step |-> step, ext |-> "groupfile"]

\* f"{input_dir}/inputs/{token}_{step}.mdin"
ParamName(tok, step) == [tag |-> "", tok |-> tok, step |-> step, ext |-> "mdin"]

\* open(name, "w") ... f.write(line) for line in lines: the file holds exactly the lines
WriteFileAppend(fs, name, lines) ==
    IF name \in DOMAIN fs
    THEN [fs EXCEPT ![name] = fs[name] \o lines]
    ELSE [n \in DOMAIN fs \cup {name} |-> IF n = name THEN lines ELSE fs[n]]

WriteFile(fs, name, lines) ==
    [n \in DOMAIN fs \cup {name} |-> IF n = name THEN lines ELSE fs[n]]

----------------------------------------------------------------------------
\* write_group_files: the stage lists

state_order == <<"init", "min1", "min2", "eqpre1P0", "eqpre2P0", "eqP0", "eqNTP4", "eqV", "eqP",
                 "eqA", "eqProt2", "eqProt1", "eqProt05", "eqProt025", "eqProt01", "eqProt0",
                 "minTI", "eqpre1P0TI", "eqpre2P0TI", "eqP0TI", "eqATI", "eqBTI", "preTI", "ti">>

end_states == <<"eqpre1P0", "eqpre2P0", "eqP0", "eqNTP4", "eqV", "eqP", "eqA", "eqProt2",
                "eqProt1", "eqProt05", "eqProt025", "eqProt01", "eqProt0">>

lambda_states_rev == <<"eqBTI", "eqATI">>

lambda_states == <<"eqATI", "eqBTI">>

ti_states_rev == <<"ti", "preTI">>

ti_states == <<"preTI", "ti">>

ep_schedule_full == lambda_schedule

ep_schedule == <<0, One>>

\* state_order.index(s)  (1-based here)
Index(s) == CHOOSE i \in 1..Len(state_order) : state_order[i] = s /\ \A j \in 1..(i - 1) : state_order[j] # s

\* state_order[idx-1]; Python's index -1 is the last element
PrevStep(s) == IF Index(s) = 1 THEN state_order[Len(state_order)] ELSE state_order[Index(s) - 1]

\* prevtag of the loop over ti_states
PrevTagTrial(ti_state, ntrial) == TrialTag(ntrial)

PrevTag(ti_state, ntrial) == IF ti_state = "preTI" THEN "equil" ELSE "ti"

\* write_group_file_lines
GroupLineOwnPrev(v, prevstep, step, tag, prevtag) ==
    [c   |-> Path(prevtag, v, prevstep, "rst7"),
     i   |-> Path("inputs", v, step, "mdin"),
     o   |-> Path(tag, v, step, "mdout"),
     r   |-> Path(tag, v, prevstep, "rst7"),
     x   |-> Path(tag, v, step, "nc"),
     ref |-> Path(prevtag, v, prevstep, "rst7")]

GroupLine(v, prevstep, step, tag, prevtag) ==
    [c   |-> Path(prevtag, v, prevstep, "rst7"),
     i   |-> Path("inputs", v, step, "mdin"),
     o   |-> Path(tag, v, step, "mdout"),
     r   |-> Path(tag, v, step, "rst7"),
     x   |-> Path(tag, v, step, "nc"),
     ref |-> Path(prevtag, v, prevstep, "rst7")]

write_group_file_lines(schedule, prevstep, step, tag, prevtag) ==
    [k \in 1..Len(schedule) |-> GroupLine(schedule[k], prevstep, step, tag, prevtag)]

\* the record kept of each line written: its stage, scope directory, trial (0: shared), position
Emit(schedule, step, tag, trial, lines) ==
    [k \in 1..Len(lines) |->
        [step |-> step, tag |-> tag, trial |-> trial, k |-> k, lam |-> schedule[k], line |-> lines[k]]]

EmptyDir == [n \in {} |-> <<>>]

\* the environments of an edge
Environments == {"aq", "com"}

\* no call of change_mdin_params is under way
NoChange ==
    /\ edge_inputs = [sys \in Environments |-> EmptyDir]
    /\ which = "all"
    /\ new_params = EmptyDir
    /\ endpoints = "default"

----------------------------------------------------------------------------
\* write_group_files, one group file per step

WriteEndState ==
    /\ pc = "end_states"
    /\ LET end_state == end_states[gi]
           out_lines == write_group_file_lines(ep_schedule, PrevStep(end_state), end_state, "equil", "equil")
       IN /\ out_inputs' = WriteFile(out_inputs, GroupFileName("equil", end_state), out_lines)
          /\ emitted' = emitted \o Emit(ep_schedule, end_state, "equil", 0, out_lines)
    /\ IF gi < Len(end_states)
       THEN gi' = gi + 1 /\ pc' = pc
       ELSE gi' = 1 /\ pc' = "lambda_states"
    /\ UNCHANGED <<params_vars, lambda_schedule, ntrials, gtrial, run, first_out, project_vars, rewrite_vars, tree_vars>>

WriteLambdaState ==
    /\ pc = "lambda_states"
    /\ LET lambda_state == lambda_states[gi]
           out_lines == write_group_file_lines(lambda_schedule, PrevStep(lambda_state), lambda_state, "equil", "equil")
       IN /\ out_inputs' = WriteFile(out_inputs, GroupFileName("equil", lambda_state), out_lines)
          /\ emitted' = emitted \o Emit(lambda_schedule, lambda_state, "equil", 0, out_lines)
    /\ IF gi < Len(lambda_states)
       THEN gi' = gi + 1 /\ pc' = pc
       ELSE gi' = 1 /\ pc' = IF ntrials >= 1 THEN "ti_states" ELSE "done"
    /\ UNCHANGED <<params_vars, lambda_schedule, ntrials, gtrial, run, first_out, project_vars, rewrite_vars, tree_vars>>

WriteTiState ==
    /\ pc = "ti_states"
    /\ LET ti_state == ti_states[gi]
           prevtag == PrevTag(ti_state, gtrial)
           out_lines == write_group_file_lines(lambda_schedule, PrevStep(ti_state), ti_state, TrialTag(gtrial), prevtag)
       IN /\ out_inputs' = WriteFile(out_inputs, GroupFileName(TrialTag(gtrial), ti_state), out_lines)
          /\ emitted' = emitted \o Emit(lambda_schedule, ti_state, TrialTag(gtrial), gtrial, out_lines)
    /\ IF gi < Len(ti_states)
       THEN gi' = gi + 1 /\ gtrial' = gtrial /\ pc' = pc
       ELSE /\ gi' = 1
            /\ IF gtrial < ntrials
               THEN gtrial' = gtrial + 1 /\ pc' = pc
               ELSE gtrial' = 1 /\ pc' = "done"
    /\ UNCHANGED <<params_vars, lambda_schedule, ntrials, run, first_out, project_vars, rewrite_vars, tree_vars>>

\* write_group_files called again on the same object and target tree
CallAgain ==
    /\ pc = "done"
    /\ run < MaxRuns
    /\ run' = run + 1
    /\ first_out' = out_inputs
    /\ emitted' = <<>>
    /\ pc' = "end_states"
    /\ gi' = 1
    /\ gtrial' = 1
    /\ UNCHANGED <<params_vars, lambda_schedule, ntrials, out_inputs, project_vars, rewrite_vars, tree_vars>>

InitCompile ==
    /\ NoChange
    /\ lambda_schedule \in Schedules
    /\ ntrials \in 0..MaxTrials
    /\ pc = "end_states"
    /\ gi = 1
    /\ gtrial = 1
    /\ out_inputs = EmptyDir
    /\ emitted = <<>>
    /\ run = 1
    /\ first_out = EmptyDir
    /\ src_inputs = EmptyDir
    /\ files = <<>>
    /\ endpoint_files = <<>>
    /\ lambda_files = <<>>
    /\ li = 1
    /\ input_dir_us = FALSE
    /\ src_tree = {}
    /\ out_tree = {}
    /\ rw_content = <<>>
    /\ rw_clambda = Tok0
    /\ rw_out = <<>>
    /\ rw_pass = 1
    /\ rw_orig = <<>>
    /\ rw_first = <<>>
    /\ rw_sched1 = <<>>

NextCompile == WriteEndState \/ WriteLambdaState \/ WriteTiState \/ CallAgain

SpecCompile == InitCompile /\ [][NextCompile]_vars

----------------------------------------------------------------------------
\* The lines of a parameter file.  A directive line is the record [kind, idx, val]:
\*   "states"  : mbar_states = val
\*   "lambda"  : mbar_lambda(idx) = val     (val a lambda value)
\*   "clambda" : clambda = val              (val an 8-decimal token)
\*   "other"   : a line with none of the three keys; idx tells such lines apart
\*   "empty"   : the empty string
\* File names are "{prefix}_{step}.{ext}", the prefix a token or a tag; the path
\* of input_dir holds no lambda token and no tag, and may hold a "_".

States(n) == [kind |-> "states", idx |-> 0, val |-> n]

Lambda(i, v) == [kind |-> "lambda", idx |-> i, val |-> v]

Clambda(t) == [kind |-> "clambda", idx |-> 0, val |-> t]

Other(i) == [kind |-> "other", idx |-> i, val |-> 0]

EmptyLine == [kind |-> "empty", idx |-> 0, val |-> 0]

\* which key a line holds; the line of a group file holds none
LineKind(l) == IF "kind" \in DOMAIN l THEN l.kind ELSE "other"

\* self.lambda_schedule[temp-1]; a negative Python index counts from the end
ScheduleAt(temp) ==
    IF temp >= 1 THEN lambda_schedule[temp] ELSE lambda_schedule[Len(lambda_schedule) + temp]

\* the body of the loop of _rewrite_file
RewriteLineShift(line, cl) ==
    LET l1 == IF LineKind(line) = "states" THEN States(Len(lambda_schedule)) ELSE line
        l2 == IF LineKind(l1) = "lambda"
              THEN IF l1.idx <= Len(lambda_schedule)
                   THEN Lambda(l1.idx - 1, ScheduleAt(l1.idx))
                   ELSE EmptyLine
              ELSE l1
    IN IF LineKind(l2) = "clambda" THEN Clambda(cl) ELSE l2

RewriteLineKeep(line, cl) ==
    LET l1 == IF LineKind(line) = "states" THEN States(Len(lambda_schedule)) ELSE line
        l2 == IF LineKind(l1) = "lambda"
              THEN IF l1.idx <= Len(lambda_schedule)
                   THEN Lambda(l1.idx, ScheduleAt(l1.idx))
                   ELSE l1
              ELSE l1
    IN IF LineKind(l2) = "clambda" THEN Clambda(cl) ELSE l2

RewriteLine(line, cl) ==
    LET l1 == IF LineKind(line) = "states" THEN States(Len(lambda_schedule)) ELSE line
        l2 == IF LineKind(l1) = "lambda"
              THEN IF l1.idx <= Len(lambda_schedule)
                   THEN Lambda(l1.idx, ScheduleAt(l1.idx))
                   ELSE EmptyLine
              ELSE l1
    IN IF LineKind(l2) = "clambda" THEN Clambda(cl) ELSE l2

\* _rewrite_file
rewrite_file_rev(cont, cl) == [j \in 1..Len(cont) |-> RewriteLine(cont[Len(cont) + 1 - j], cl)]

rewrite_file(cont, cl) == [j \in 1..Len(cont) |-> RewriteLine(cont[j], cl)]

\* for line in out_lines: f.write(line) -- an empty string adds nothing to the file
IsWritten(l) == LineKind(l) # "empty"

Written(lines) == SelectSeq(lines, IsWritten)

\* the entries of the mbar_lambda table of a file, in file order
IsLambdaLine(l) == LineKind(l) = "lambda"

Table(lines) == SelectSeq(lines, IsLambdaLine)

----------------------------------------------------------------------------
\* The source trees

\* the schedule the source tree was made for
RefSchedule(n) == [i \in 1..n |-> IF i = n THEN One ELSE (i - 1) * (One \div (n - 1))]

RefInterior == Fmt8(500000000)

\* a parameter file of the source tree with a table of n entries
ParamContent(tok, n) ==
    <<Other(1), Clambda(tok), Other(2), States(n)>>
        \o [i \in 1..n |-> Lambda(i, RefSchedule(n)[i])] \o <<Other(3)>>

SrcGroupContent == write_group_file_lines(ep_schedule, "preTI", "ti", "t1", "ti")

CandidateFiles ==
    {ParamName(Tok0, "ti"), ParamName(RefInterior, "ti"), ParamName(Tok1, "ti"),
     ParamName(RefInterior, "eqATI"), GroupFileName("t1", "ti")}

SrcContent(name, n) == IF name.ext = "mdin" THEN ParamContent(name.tok, n) ELSE SrcGroupContent

\* the orders in which glob may list a directory
RECURSIVE Orders(_)
Orders(S) == IF S = {} THEN {<<>>} ELSE UNION {{<<x>> \o o : o \in Orders(S \ {x})} : x \in S}

----------------------------------------------------------------------------
\* find_all_files

\* "0.00000000" in f, "1.00000000" in f
Has0(f) == f.tag = "" /\ f.tok = Tok0

Has1(f) == f.tag = "" /\ f.tok = Tok1

\* file.split("/")[-1].split("_")[0]
Prefix(f) == [tag |-> f.tag, tok |-> f.tok]

IsEndpointFile(f) == Has0(f) \/ Has1(f)

\* _find_endpoint_files
find_endpoint_files(fs) == SelectSeq(fs, IsEndpointFile)

\* the positions of the files that the first loop of _find_lambda_files may stop at
NotZero(fs) == {i \in 1..Len(fs) : ~Has0(fs[i])}

\* start_name: set at the first such file; file.split("_")[0] is the path up to
\* its prefix when input_dir holds no "_"
StartName(fs) == Prefix(fs[CHOOSE i \in NotZero(fs) : \A j \in NotZero(fs) : i <= j])

\* _find_lambda_files: start_name in file; when input_dir holds a "_", start_name
\* is a piece of input_dir and every file of the directory holds it
find_lambda_files(fs) ==
    LET start_name == StartName(fs)
        Matches(f) == input_dir_us \/ Prefix(f) = start_name
    IN SelectSeq(fs, Matches)

\* file.replace(ref_lambda, fmt_lambda)
ReplacePrefix(f, ref_lambda, fmt_lambda) ==
    IF Prefix(f) = ref_lambda THEN [f EXCEPT !.tag = "", !.tok = fmt_lambda] ELSE f

\* lambda_schedule[1:-1]
Interior(schedule) == SubSeq(schedule, 2, Len(schedule) - 1)

\* where write_new_lambda_schedule goes on after the loop over the endpoint files
EnterInterior == IF Len(Interior(lambda_schedule)) >= 1 THEN "interior" ELSE "end_states"

FindAllFiles ==
    /\ pc = "find"
    /\ \E order \in Orders(DOMAIN src_inputs) :
          /\ files' = order
          /\ endpoint_files' = find_endpoint_files(order)
          /\ IF NotZero(order) = {}
             THEN /\ lambda_files' = <<>>
                  /\ pc' = "error"
             ELSE /\ lambda_files' = find_lambda_files(order)
                  /\ pc' = IF Len(find_endpoint_files(order)) >= 1 THEN "endpoints" ELSE EnterInterior
    /\ gi' = 1
    /\ li' = 1
    /\ UNCHANGED <<params_vars, lambda_schedule, ntrials, out_inputs, src_inputs, input_dir_us, compile_vars, rewrite_vars, tree_vars>>

----------------------------------------------------------------------------
\* write_new_lambda_schedule, one file per step

WriteEndpoint ==
    /\ pc = "endpoints"
    /\ LET file == endpoint_files[gi]
           cont == src_inputs[file]
           cl == IF Has0(file) THEN Tok0 ELSE Tok1
           outl == rewrite_file(cont, cl)
       IN /\ out_inputs' = WriteFile(out_inputs, file, Written(outl))
          /\ rw_content' = cont
          /\ rw_clambda' = cl
          /\ rw_out' = outl
          /\ UNCHANGED <<rw_pass, rw_orig, rw_first, rw_sched1>>
    /\ IF gi < Len(endpoint_files)
       THEN gi' = gi + 1 /\ pc' = pc
       ELSE gi' = 1 /\ pc' = EnterInterior
    /\ UNCHANGED <<params_vars, lambda_schedule, ntrials, compile_vars, project_vars, tree_vars>>

WriteInterior ==
    /\ pc = "interior"
    /\ LET ref_lambda == Prefix(lambda_files[1])
           lambda_value == Interior(lambda_schedule)[li]
           fmt_lambda == Fmt8(lambda_value)
           file == lambda_files[gi]
           cont == src_inputs[file]
           outl == rewrite_file(cont, fmt_lambda)
       IN /\ out_inputs' = WriteFile(out_inputs, ReplacePrefix(file, ref_lambda, fmt_lambda), Written(outl))
          /\ rw_content' = cont
          /\ rw_clambda' = fmt_lambda
          /\ rw_out' = outl
          /\ UNCHANGED <<rw_pass, rw_orig, rw_first, rw_sched1>>
    /\ IF gi < Len(lambda_files)
       THEN gi' = gi + 1 /\ li' = li /\ pc' = pc
       ELSE /\ gi' = 1
            /\ IF li < Len(Interior(lambda_schedule))
               THEN li' = li + 1 /\ pc' = pc
               ELSE li' = 1 /\ pc' = "end_states"
    /\ UNCHANGED <<params_vars, lambda_schedule, ntrials, compile_vars, src_inputs, files, endpoint_files, lambda_files, input_dir_us, tree_vars>>

InitProject ==
    /\ NoChange
    /\ lambda_schedule \in ValidSchedules(MaxLen)
    /\ ntrials = 1
    /\ \E names \in SUBSET CandidateFiles : \E n \in 2..MaxRefLen :
          src_inputs = [f \in names |-> SrcContent(f, n)]
    /\ pc = "find"
    /\ gi = 1
    /\ gtrial = 1
    /\ out_inputs = EmptyDir
    /\ emitted = <<>>
    /\ run = 1
    /\ first_out = EmptyDir
    /\ files = <<>>
    /\ endpoint_files = <<>>
    /\ lambda_files = <<>>
    /\ li = 1
    /\ input_dir_us \in BOOLEAN
    /\ src_tree = {}
    /\ out_tree = {}
    /\ rw_content = <<>>
    /\ rw_clambda = Tok0
    /\ rw_out = <<>>
    /\ rw_pass = 1
    /\ rw_orig = <<>>
    /\ rw_first = <<>>
    /\ rw_sched1 = <<>>

NextProject == FindAllFiles \/ WriteEndpoint \/ WriteInterior

SpecProject == InitProject /\ [][NextProject]_vars

----------------------------------------------------------------------------
\* copy_directory.  A file outside inputs/ is the record [dir, base, ext], dir ""
\* for the top level; a pattern "{dir}/*.{ext}" is the record [dir, ext].

TreeFile(dir, base, ext) == [dir |-> dir, base |-> base, ext |-> ext]

\* shutil.ignore_patterns("*.mdout", "t*/*.mdout", "t*/*.nc")
ignore_patterns ==
    {[dir |-> "", ext |-> "mdout"], [dir |-> "t*", ext |-> "mdout"], [dir |-> "t*", ext |-> "nc"]}

\* fnmatch of a pattern against the name of a file inside the directory that
\* copytree is visiting: the name holds no "/", so a pattern with a directory part
\* matches none
PatternMatches(p, f) == p.dir = "" /\ f.ext = p.ext

Ignored(f) == \E p \in ignore_patterns : PatternMatches(p, f)

\* files an edge directory may hold outside inputs/
TreeCandidates ==
    {TreeFile("", "x", "nc"), TreeFile("", "x", "mdout"),
     TreeFile("t1", "x", "nc"), TreeFile("t1", "x", "mdout"), TreeFile("t1", "x", "rst7")}

\* what an earlier run may have left in the target
OldTreeFile == TreeFile("t1", "old", "nc")

OldInputs == [f \in {ParamName(RefInterior, "old")} |-> ParamContent(RefInterior, 2)]

\* copy_directory without the rmtree of inputs: the copies that copytree made of
\* the source parameter files stay, over what the target held
CopyDirectoryNoRmtree ==
    /\ pc = "copy"
    /\ out_tree' = out_tree \cup {f \in src_tree : ~Ignored(f)}
    /\ out_inputs' = [n \in DOMAIN out_inputs \cup DOMAIN src_inputs |->
                         IF n \in DOMAIN src_inputs THEN src_inputs[n] ELSE out_inputs[n]]
    /\ pc' = "find"
    /\ UNCHANGED <<params_vars, lambda_schedule, ntrials, gi, src_tree, compile_vars, project_vars, rewrite_vars>>

\* copytree(..., dirs_exist_ok=True), rmtree of inputs, mkdir of inputs
CopyDirectory ==
    /\ pc = "copy"
    /\ out_tree' = out_tree \cup {f \in src_tree : ~Ignored(f)}
    /\ out_inputs' = EmptyDir
    /\ pc' = "find"
    /\ UNCHANGED <<params_vars, lambda_schedule, ntrials, gi, src_tree, compile_vars, project_vars, rewrite_vars>>

\* a schedule that is no lambda schedule
InvalidSchedule(s) == Len(s) < 2 \/ s[1] # 0 \/ s[Len(s)] # One

InitCopy ==
    /\ NoChange
    /\ lambda_schedule \in Schedules
    /\ ntrials = 1
    /\ src_tree \in SUBSET TreeCandidates
    /\ out_tree \in {{}, {OldTreeFile}}
    /\ out_inputs \in {EmptyDir, OldInputs}
    /\ src_inputs = [f \in {ParamName(Tok0, "ti"), ParamName(RefInterior, "ti")} |-> SrcContent(f, 2)]
    /\ input_dir_us = FALSE
    /\ pc = "copy"
    /\ gi = 1
    /\ gtrial = 1
    /\ emitted = <<>>
    /\ run = 1
    /\ first_out = EmptyDir
    /\ files = <<>>
    /\ endpoint_files = <<>>
    /\ lambda_files = <<>>
    /\ li = 1
    /\ rw_content = <<>>
    /\ rw_clambda = Tok0
    /\ rw_out = <<>>
    /\ rw_pass = 1
    /\ rw_orig = <<>>
    /\ rw_first = <<>>
    /\ rw_sched1 = <<>>

NextCopy == CopyDirectory \/ FindAllFiles \/ WriteEndpoint \/ WriteInterior

SpecCopy == InitCopy /\ [][NextCopy]_vars

----------------------------------------------------------------------------
\* Edge.copy for one environment: NewLambdaSchedule(...), find_all_files,
\* write_new_lambda_schedule, write_group_files, on a target tree that an earlier
\* run may have filled.  first_out keeps {output_dir}/inputs as that run left it.

\* files of an earlier run under names that this run writes again
StaleInputs ==
    [f \in {ParamName(Tok0, "ti"), GroupFileName("equil", "eqV")} |-> <<Other(9)>>]

\* the files of the source parameter directory
EdgeFiles == {ParamName(Tok0, "ti"), ParamName(RefInterior, "ti"), GroupFileName("t1", "ti")}

InitEdge ==
    /\ NoChange
    /\ lambda_schedule \in ValidSchedules(MaxEdgeLen)
    /\ ntrials \in 1..MaxTrials
    /\ src_tree = {TreeFile("t1", "x", "rst7")}
    /\ out_tree = {}
    /\ out_inputs \in {EmptyDir, OldInputs, StaleInputs}
    /\ first_out = out_inputs
    /\ \E names \in SUBSET EdgeFiles : src_inputs = [f \in names |-> SrcContent(f, 3)]
    /\ input_dir_us \in BOOLEAN
    /\ pc = "copy"
    /\ gi = 1
    /\ gtrial = 1
    /\ emitted = <<>>
    /\ run = 1
    /\ files = <<>>
    /\ endpoint_files = <<>>
    /\ lambda_files = <<>>
    /\ li = 1
    /\ rw_content = <<>>
    /\ rw_clambda = Tok0
    /\ rw_out = <<>>
    /\ rw_pass = 1
    /\ rw_orig = <<>>
    /\ rw_first = <<>>
    /\ rw_sched1 = <<>>

NextEdge ==
    \/ CopyDirectory
    \/ FindAllFiles
    \/ WriteEndpoint
    \/ WriteInterior
    \/ WriteEndState
    \/ WriteLambdaState
    \/ WriteTiState

SpecEdge == InitEdge /\ [][NextEdge]_vars

----------------------------------------------------------------------------
\* _rewrite_file alone

Rewrite ==
    /\ pc = "rewrite"
    /\ rw_out' = rewrite_file(rw_content, rw_clambda)
    /\ pc' = "rewritten"
    /\ UNCHANGED <<params_vars, lambda_schedule, ntrials, gi, out_inputs, compile_vars, project_vars, tree_vars,
                   rw_content, rw_clambda, rw_pass, rw_orig, rw_first, rw_sched1>>

\* the written file is projected again, by an object with the same schedule or with
\* the schedule the file was made for
Reproject ==
    /\ pc = "rewritten"
    /\ rw_pass = 1
    /\ rw_pass' = 2
    /\ rw_orig' = rw_content
    /\ rw_first' = Written(rw_out)
    /\ rw_sched1' = lambda_schedule
    /\ rw_content' = Written(rw_out)
    /\ lambda_schedule' \in {lambda_schedule, RefSchedule(Len(SelectSeq(rw_content, IsLambdaLine)))}
    /\ pc' = "rewrite"
    /\ UNCHANGED <<params_vars, ntrials, gi, out_inputs, compile_vars, project_vars, tree_vars, rw_clambda, rw_out>>

InitRewrite ==
    /\ NoChange
    /\ lambda_schedule \in ValidSchedules(MaxRewriteLen)
    /\ ntrials = 1
    /\ \E tok \in {Tok0, RefInterior, Tok1} : \E n \in 2..MaxTable : rw_content = ParamContent(tok, n)
    /\ rw_clambda \in {Fmt8(v) : v \in LambdaValues}
    /\ rw_out = <<>>
    /\ rw_pass = 1
    /\ rw_orig = <<>>
    /\ rw_first = <<>>
    /\ rw_sched1 = <<>>
    /\ pc = "rewrite"
    /\ gi = 1
    /\ gtrial = 1
    /\ out_inputs = EmptyDir
    /\ emitted = <<>>
    /\ run = 1
    /\ first_out = EmptyDir
    /\ src_inputs = EmptyDir
    /\ files = <<>>
    /\ endpoint_files = <<>>
    /\ lambda_files = <<>>
    /\ li = 1
    /\ input_dir_us = FALSE
    /\ src_tree = {}
    /\ out_tree = {}

NextRewrite == Rewrite \/ Reproject

SpecRewrite == InitRewrite /\ [][NextRewrite]_vars

----------------------------------------------------------------------------
\* The scope of a stage in write_group_files: the shared stages are written with
\* tag "equil", the per-trial stages with tag t{ntrial}

InSeq(seq, x) == \E i \in 1..Len(seq) : seq[i] = x

IsShared(s) == InSeq(end_states, s) \/ InSeq(lambda_states, s)

IsPerTrial(s) == InSeq(ti_states, s)

HasDescriptors(s) == IsShared(s) \/ IsPerTrial(s)

\* number of descriptor lines of one group file of stage s
NumLines(s) == IF InSeq(end_states, s) THEN 2 ELSE Len(lambda_schedule)

StageDone(s) == \E p \in DOMAIN emitted : emitted[p].step = s

----------------------------------------------------------------------------
\* C1: every descriptor of a stage S whose predecessor has descriptors reads (-c)
\* and references (-ref) the restart file (-r) that the predecessor's descriptor
\* at the same lambda writes, in the shared directory or in the same trial.
C1_PredecessorRestart ==
    \A p \in DOMAIN emitted :
        LET d == emitted[p]
            prev == PrevStep(d.step)
        IN HasDescriptors(prev) =>
              \E q \in DOMAIN emitted :
                  LET e == emitted[q]
                  IN /\ e.step = prev
                     /\ e.lam = d.lam
                     /\ (IsPerTrial(prev) => e.trial = d.trial)
                     /\ d.line.c = e.line.r
                     /\ d.line.ref = e.line.r

\* C2: a per-trial stage after a shared stage names, in every trial, the same
\* predecessor path in the shared directory for -c and -ref, and writes its own
\* outputs in the directory of its trial; every trial 1..ntrials has its lines.
C2_ScopeTransition ==
    /\ \A p \in DOMAIN emitted :
          LET d == emitted[p]
              prev == PrevStep(d.step)
          IN (IsPerTrial(d.step) /\ IsShared(prev)) =>
                /\ d.line.c = Path("equil", d.lam, prev, "rst7")
                /\ d.line.ref = Path("equil", d.lam, prev, "rst7")
                /\ d.line.o.dir = TrialTag(d.trial)
                /\ d.line.r.dir = TrialTag(d.trial)
                /\ d.line.x.dir = TrialTag(d.trial)
                /\ \A q \in DOMAIN emitted :
                      (emitted[q].step = d.step /\ emitted[q].k = d.k) =>
                          /\ emitted[q].line.c = d.line.c
                          /\ emitted[q].line.ref = d.line.ref
    /\ pc = "done" =>
          \A t \in 1..ntrials : \A k \in 1..Len(lambda_schedule) :
              \E p \in DOMAIN emitted :
                  /\ emitted[p].step = "preTI"
                  /\ emitted[p].trial = t
                  /\ emitted[p].k = k

C2_Witness ==
    /\ pc = "done"
    /\ ntrials >= 2
    /\ Len(lambda_schedule) >= 3
    /\ \E p, q \in DOMAIN emitted :
          /\ emitted[p].step = "preTI" /\ emitted[p].trial = 1
          /\ emitted[q].step = "preTI" /\ emitted[q].trial = 2
          /\ emitted[p].line.c = emitted[q].line.c
          /\ emitted[p].line.r # emitted[q].line.r

\* lexicographic order of triples
Lex3(a, b) ==
    \/ a[1] < b[1]
    \/ a[1] = b[1] /\ a[2] < b[2]
    \/ a[1] = b[1] /\ a[2] = b[2] /\ a[3] < b[3]

\* C3 as stated: the descriptors are written in stage order, then trial order,
\* then schedule order.
C3_StageTrialLambdaOrder ==
    \A p, q \in DOMAIN emitted :
        p < q => Lex3(<<Index(emitted[p].step), emitted[p].trial, emitted[p].k>>,
                      <<Index(emitted[q].step), emitted[q].trial, emitted[q].k>>)

\* C3 amended: the descriptors of the shared stages are written first, in stage
\* order; those of the per-trial stages follow trial by trial, in stage order
\* within a trial; within one group file the lambdas are in schedule order.
C3_TrialStageLambdaOrder ==
    \A p, q \in DOMAIN emitted :
        p < q => Lex3(<<emitted[p].trial, Index(emitted[p].step), emitted[p].k>>,
                      <<emitted[q].trial, Index(emitted[q].step), emitted[q].k>>)

C3_Witness ==
    /\ pc = "done"
    /\ ntrials >= 2
    /\ \E p, q \in DOMAIN emitted :
          /\ p < q
          /\ emitted[p].step = "ti" /\ emitted[p].trial = 1
          /\ emitted[q].step = "preTI" /\ emitted[q].trial = 2

\* C4: when a descriptor of S2 for trial t is written, every descriptor of its
\* predecessor S1 that applies to trial t has been written before it, and none
\* is written after it.
C4_PredecessorFirst ==
    \A q \in DOMAIN emitted :
        LET d == emitted[q]
            prev == PrevStep(d.step)
            Applies(e) == e.step = prev /\ (IsPerTrial(prev) => e.trial = d.trial)
        IN HasDescriptors(prev) =>
              /\ \A k \in 1..NumLines(prev) :
                    \E p \in 1..(q - 1) : Applies(emitted[p]) /\ emitted[p].k = k
              /\ \A p \in DOMAIN emitted : Applies(emitted[p]) => p < q

C4_Witness ==
    /\ pc = "done"
    /\ ntrials >= 2
    /\ \E p, q \in DOMAIN emitted :
          /\ p < q
          /\ emitted[p].step = "preTI" /\ emitted[p].trial = 2
          /\ emitted[q].step = "ti" /\ emitted[q].trial = 2

GroupFiles == {n \in DOMAIN out_inputs : n.ext = "groupfile"}

\* C5: an endpoint-only stage has one group file of two lines, for 0.0 and 1.0;
\* a lambda-resolved shared stage one group file with one line per schedule value
\* in schedule order; a per-trial stage one such group file per trial 1..ntrials,
\* hence N*T descriptors.
C5_LambdaAndTrialSets ==
    pc = "done" =>
        /\ GroupFiles = {GroupFileName("equil", end_states[i]) : i \in 1..Len(end_states)}
                 \cup {GroupFileName("equil", lambda_states[i]) : i \in 1..Len(lambda_states)}
                 \cup {GroupFileName(TrialTag(t), ti_states[i]) : t \in 1..ntrials, i \in 1..Len(ti_states)}
        /\ \A i \in 1..Len(end_states) :
              LET f == out_inputs[GroupFileName("equil", end_states[i])]
              IN /\ Len(f) = 2
                 /\ f[1].i = [dir |-> "inputs", tok |-> Tok0, step |-> end_states[i], ext |-> "mdin"]
                 /\ f[2].i = [dir |-> "inputs", tok |-> Tok1, step |-> end_states[i], ext |-> "mdin"]
        /\ \A i \in 1..Len(lambda_states) :
              LET f == out_inputs[GroupFileName("equil", lambda_states[i])]
              IN /\ Len(f) = Len(lambda_schedule)
                 /\ \A k \in 1..Len(f) : f[k].i.tok = Fmt8(lambda_schedule[k])
        /\ \A i \in 1..Len(ti_states) :
              /\ \A t \in 1..ntrials :
                    LET f == out_inputs[GroupFileName(TrialTag(t), ti_states[i])]
                    IN /\ Len(f) = Len(lambda_schedule)
                       /\ \A k \in 1..Len(f) : f[k].i.tok = Fmt8(lambda_schedule[k])
              /\ Cardinality({p \in DOMAIN emitted : emitted[p].step = ti_states[i]})
                    = Len(lambda_schedule) * ntrials

C5_Witness ==
    /\ pc = "done"
    /\ ntrials = 2
    /\ Len(lambda_schedule) = 3
    /\ Cardinality({p \in DOMAIN emitted : emitted[p].step = "ti"}) = 6
    /\ Len(out_inputs[GroupFileName("equil", "eqA")]) = 2

\* C6: the own paths of every descriptor line carry one token of its lambda and
\* its stage name in the canonical form, and -c and -ref are the same path.
C6_CanonicalPaths ==
    \A p \in DOMAIN emitted :
        LET d == emitted[p]
            l == d.line
        IN /\ l.i = [dir |-> "inputs", tok |-> Fmt8(d.lam), step |-> d.step, ext |-> "mdin"]
           /\ l.o = [dir |-> d.tag, tok |-> Fmt8(d.lam), step |-> d.step, ext |-> "mdout"]
           /\ l.r = [dir |-> d.tag, tok |-> Fmt8(d.lam), step |-> d.step, ext |-> "rst7"]
           /\ l.x = [dir |-> d.tag, tok |-> Fmt8(d.lam), step |-> d.step, ext |-> "nc"]
           /\ l.c = l.ref
           /\ out_inputs[GroupFileName(d.tag, d.step)][d.k] = l

C6_Witness ==
    \E p \in DOMAIN emitted :
        /\ emitted[p].step = "ti"
        /\ emitted[p].lam = 250000000
        /\ emitted[p].line.x = [dir |-> "t1", tok |-> 25000000, step |-> "ti", ext |-> "nc"]

\* C7: a second call of write_group_files with the same schedule and trial count
\* leaves the target inputs directory, file for file, as the first call left it.
C7_CompileIdempotent == run >= 2 => out_inputs = first_out

C7_Witness ==
    /\ run = 2
    /\ pc = "done"
    /\ ntrials >= 1
    /\ Len(lambda_schedule) >= 3
    /\ GroupFileName("t1", "ti") \in DOMAIN out_inputs

----------------------------------------------------------------------------
\* The parameter files of a stage in the target, and the stages that the source
\* tree holds with both endpoint files and an interior file

ParamFilesOf(step) == {f \in DOMAIN out_inputs : f.ext = "mdin" /\ f.step = step}

SrcComplete(step) ==
    /\ ParamName(Tok0, step) \in DOMAIN src_inputs
    /\ ParamName(Tok1, step) \in DOMAIN src_inputs
    /\ \E f \in DOMAIN src_inputs : f.ext = "mdin" /\ f.step = step /\ ~IsEndpointFile(f)

DeclaresStates(lines, n) ==
    /\ \E j \in 1..Len(lines) : LineKind(lines[j]) = "states"
    /\ \A j \in 1..Len(lines) : LineKind(lines[j]) = "states" => lines[j].val = n

\* C8: after write_new_lambda_schedule with a valid schedule of length N, every
\* lambda-resolved stage of the source tree has exactly N parameter files in the
\* target inputs directory, each declaring mbar_states = N.
C8_ExactlyNFiles ==
    pc = "end_states" =>
        \A step \in {"ti", "eqATI"} :
            SrcComplete(step) =>
                /\ Cardinality(ParamFilesOf(step)) = Len(lambda_schedule)
                /\ \A f \in ParamFilesOf(step) : DeclaresStates(out_inputs[f], Len(lambda_schedule))

\* C9: every parameter file written by the projection declares mbar_states = N
\* and has the table entries 1..N in index order, entry i holding schedule value i.
C9_TableMatchesSchedule ==
    \A f \in DOMAIN out_inputs :
        f.ext = "mdin" =>
            /\ DeclaresStates(out_inputs[f], Len(lambda_schedule))
            /\ Table(out_inputs[f]) = [i \in 1..Len(lambda_schedule) |-> Lambda(i, lambda_schedule[i])]

\* C10: _rewrite_file keeps the table lines of the indices i <= N, each set to
\* schedule value i, writes nothing for the indices i > N, and sets every
\* mbar_states line to N; an 11-entry table rewritten for a 5-point schedule keeps
\* the entries 1..5, loses 6..11, and mbar_states goes from 11 to 5.
C10_RewriteTable ==
    pc = "rewritten" =>
        LET n == Len(lambda_schedule)
            inTable == Table(rw_content)
            outTable == Table(Written(rw_out))
            kept == {j \in 1..Len(inTable) : inTable[j].idx <= n}
        IN /\ Len(rw_out) = Len(rw_content)
           /\ \A j \in 1..Len(rw_content) :
                 /\ LineKind(rw_content[j]) = "states" => rw_out[j] = States(n)
                 /\ LineKind(rw_content[j]) = "lambda" =>
                       IF rw_content[j].idx <= n
                       THEN rw_out[j] = Lambda(rw_content[j].idx, lambda_schedule[rw_content[j].idx])
                       ELSE ~IsWritten(rw_out[j])
           /\ Len(outTable) = Cardinality(kept)
           /\ (Len(inTable) = 11 /\ n = 5) =>
                 /\ [j \in 1..Len(outTable) |-> outTable[j].idx] = <<1, 2, 3, 4, 5>>
                 /\ DeclaresStates(rw_content, 11)
                 /\ DeclaresStates(Written(rw_out), 5)

C10_Witness ==
    /\ pc = "rewritten"
    /\ Len(lambda_schedule) = 5
    /\ Len(Table(rw_content)) = 11
    /\ Len(Table(Written(rw_out))) = 5
    /\ Len(Written(rw_out)) = Len(rw_content) - 6

----------------------------------------------------------------------------
IsOtherLine(l) == LineKind(l) = "other"

\* the directive of a line without its value
LineKey(l) == [kind |-> LineKind(l), idx |-> l.idx]

\* the lines that _rewrite_file does not drop
IsKept(l) == ~(LineKind(l) = "lambda" /\ l.idx > Len(lambda_schedule))

\* C11: _rewrite_file returns every line that holds none of the three directives
\* unchanged, at its position, and the written lines are the input lines that are
\* not dropped, in the order of the input.
C11_PassThrough ==
    pc = "rewritten" =>
        /\ Len(rw_out) = Len(rw_content)
        /\ \A j \in 1..Len(rw_content) :
              IsOtherLine(rw_content[j]) => rw_out[j] = rw_content[j]
        /\ SelectSeq(Written(rw_out), IsOtherLine) = SelectSeq(rw_content, IsOtherLine)
        /\ LET w == Written(rw_out)
               kept == SelectSeq(rw_content, IsKept)
           IN [j \in 1..Len(w) |-> LineKey(w[j])] = [j \in 1..Len(kept) |-> LineKey(kept[j])]

C11_Witness ==
    /\ pc = "rewritten"
    /\ Len(rw_content) >= 8
    /\ rw_content[1] = Other(1)
    /\ rw_out[1] = Other(1)
    /\ rw_out[Len(rw_out)] = Other(3)
    /\ Len(Written(rw_out)) < Len(rw_content)

----------------------------------------------------------------------------
\* the clambda directives of a file all hold the token tok, and there is one
HasClambda(lines, tok) ==
    /\ \E j \in 1..Len(lines) : LineKind(lines[j]) = "clambda"
    /\ \A j \in 1..Len(lines) : LineKind(lines[j]) = "clambda" => lines[j].val = tok

\* C12: once the endpoint files are written, every endpoint file of the source is
\* in the target under its own name with clambda equal to the token of its name,
\* and stays so to the end of the projection.
C12_EndpointInvariant ==
    pc \in {"interior", "end_states"} =>
        \A f \in DOMAIN src_inputs :
            IsEndpointFile(f) =>
                /\ f \in DOMAIN out_inputs
                /\ HasClambda(out_inputs[f], f.tok)

----------------------------------------------------------------------------
\* the name of a template with its lambda token replaced by the token of v
InteriorName(f, v) == [f EXCEPT !.tag = "", !.tok = Fmt8(v)]

ClambdaIs(lines, tok) ==
    \A j \in 1..Len(lines) : LineKind(lines[j]) = "clambda" => lines[j].val = tok

\* C13: after the projection, for every interior schedule value v and every
\* template file the target holds the file named after the template with the token
\* of v, its clambda being the token of v; every other file of the target is an
\* endpoint file of the source.
C13_InteriorFiles ==
    pc = "end_states" =>
        LET interior == Interior(lambda_schedule)
            written == {InteriorName(lambda_files[i], interior[k]) :
                            i \in 1..Len(lambda_files), k \in 1..Len(interior)}
        IN /\ \A i \in 1..Len(lambda_files) : \A k \in 1..Len(interior) :
                 LET n == InteriorName(lambda_files[i], interior[k])
                 IN /\ n \in DOMAIN out_inputs
                    /\ ClambdaIs(out_inputs[n], Fmt8(interior[k]))
           /\ \A n \in DOMAIN out_inputs :
                 n \in written \/ (IsEndpointFile(n) /\ n \in DOMAIN src_inputs)

----------------------------------------------------------------------------
\* C14: every file that _find_lambda_files selects as a template is an interior
\* parameter file: a parameter file whose token is neither 0.00000000 nor
\* 1.00000000.
C14_TemplateIsInterior ==
    pc \in {"endpoints", "interior", "end_states"} =>
        \A i \in 1..Len(lambda_files) :
            /\ lambda_files[i].ext = "mdin"
            /\ ~IsEndpointFile(lambda_files[i])

----------------------------------------------------------------------------
\* C15: projecting the result of a projection again with the same schedule and
\* coupling value gives the lines of the first projection.
C15_RewriteIdempotent ==
    (pc = "rewritten" /\ rw_pass = 2 /\ lambda_schedule = rw_sched1) =>
        /\ Written(rw_out) = rw_first
        /\ rw_out = rw_first

C15_Witness ==
    /\ pc = "rewritten"
    /\ rw_pass = 2
    /\ lambda_schedule = rw_sched1
    /\ Len(Table(rw_orig)) > Len(lambda_schedule)
    /\ Len(lambda_schedule) >= 3
    /\ Table(rw_first) # Table(rw_orig)
    /\ Written(rw_out) = rw_first

\* the schedule that the table of a file agrees with
TableSchedule(lines) == [i \in 1..Len(Table(lines)) |-> Table(lines)[i].val]

\* C16: a file whose table agrees with the schedule A0, projected onto a schedule A
\* and then back onto A0, has its original table again.
C16_RoundTrip ==
    (pc = "rewritten" /\ rw_pass = 2 /\ lambda_schedule = TableSchedule(rw_orig)) =>
        Table(Written(rw_out)) = Table(rw_orig)

----------------------------------------------------------------------------
NoEndpointFile == \A f \in DOMAIN src_inputs : ~IsEndpointFile(f)

OnlyEndpointFiles == DOMAIN src_inputs # {} /\ \A f \in DOMAIN src_inputs : IsEndpointFile(f)

\* C17: when the source parameter directory holds no endpoint file, the projection
\* stops with an error at find_all_files and writes no file.
C17_MissingEndpointFatal ==
    NoEndpointFile => (pc \in {"find", "error"} /\ out_inputs = EmptyDir)

\* C18: when the source parameter directory holds only endpoint files, a schedule
\* of more than 2 values ends the projection with an error before any interior file
\* is written, and a schedule of 2 values ends it without an error.
C18_MissingTemplateFatal ==
    OnlyEndpointFiles =>
        /\ Len(lambda_schedule) > 2 =>
              /\ pc \in {"find", "error", "endpoints"}
              /\ \A n \in DOMAIN out_inputs : IsEndpointFile(n)
        /\ Len(lambda_schedule) = 2 => pc # "error"

----------------------------------------------------------------------------
\* C19: with a schedule of fewer than 2 values, or not from 0.0 to 1.0, no step
\* adds a file to the target tree or writes one.
C19_InvalidScheduleRejected ==
    [][InvalidSchedule(lambda_schedule) =>
          /\ out_tree' \subseteq out_tree
          /\ \A n \in DOMAIN out_inputs' :
                n \in DOMAIN out_inputs /\ out_inputs'[n] = out_inputs[n]]_vars

\* C20: after copy_directory the target holds no .nc and no .mdout file of the
\* source, neither at the top level nor in a trial directory, and holds every other
\* file of the source.
C20_CopyWithoutTransients ==
    pc # "copy" =>
        \A f \in src_tree :
            IF f.ext \in {"nc", "mdout"} THEN f \notin out_tree ELSE f \in out_tree

----------------------------------------------------------------------------
\* The writers of the files of {output_dir}/inputs during one run of Edge.copy

CompilePcs == {"end_states", "lambda_states", "ti_states", "done"}

IsParamName(n) == n.ext = "mdin"

\* the file holds what write_new_lambda_schedule writes for some source file
ProjectorWrote(n) ==
    \E f \in DOMAIN src_inputs : \E i \in 1..Len(lambda_schedule) :
        out_inputs[n] = Written(rewrite_file(src_inputs[f], Fmt8(lambda_schedule[i])))

\* the file holds the descriptor lines that write_group_files emitted for it
CompilerWrote(n) ==
    /\ \E p \in DOMAIN emitted : GroupFileName(emitted[p].tag, emitted[p].step) = n
    /\ \A p \in DOMAIN emitted :
          GroupFileName(emitted[p].tag, emitted[p].step) = n =>
              /\ Len(out_inputs[n]) = NumLines(emitted[p].step)
              /\ out_inputs[n][emitted[p].k] = emitted[p].line

Leftover(n) == n \in DOMAIN first_out /\ out_inputs[n] = first_out[n]

\* a step that writes no parameter file
ParamFilesKept ==
    \A n \in DOMAIN out_inputs' :
        IsParamName(n) => (n \in DOMAIN out_inputs /\ out_inputs'[n] = out_inputs[n])

\* once write_group_files has begun no step writes a parameter file
GroupFilesLast == [][(pc \in CompilePcs) => ParamFilesKept]_vars

\* C21: the target parameter directory is empty when the projection starts, no
\* parameter file changes and none appears once write_group_files has begun, no
\* descriptor is emitted before that, and when Edge.copy is done every file of the
\* directory holds what the projector or the compiler wrote in this run and none
\* is a file that an earlier run left.
C21_FreshInputs ==
    /\ [](pc = "find" => out_inputs = EmptyDir)
    /\ GroupFilesLast
    /\ [](pc \notin CompilePcs => emitted = <<>>)
    /\ [](pc = "done" =>
            \A n \in DOMAIN out_inputs :
                (ProjectorWrote(n) \/ CompilerWrote(n)) /\ ~Leftover(n))

C21_Witness ==
    /\ pc = "done"
    /\ first_out = StaleInputs
    /\ ParamName(Tok0, "ti") \in DOMAIN out_inputs
    /\ ParamName(Fmt8(250000000), "ti") \in DOMAIN out_inputs
    /\ GroupFileName("t2", "ti") \in DOMAIN out_inputs

----------------------------------------------------------------------------
\* write_new_lambda_schedule as a function of the list that _find_files obtained

\* the writes of the loop over endpoint_files, as pairs <<name, lines>>
EndpointWrites(order) ==
    LET ep == find_endpoint_files(order)
    IN [i \in 1..Len(ep) |->
           <<ep[i], Written(rewrite_file(src_inputs[ep[i]], IF Has0(ep[i]) THEN Tok0 ELSE Tok1))>>]

\* the writes of the loops over lambda_schedule[1:-1] and lambda_files
InteriorWrites(order) ==
    LET lf == find_lambda_files(order)
        ref_lambda == Prefix(lf[1])
        inner == Interior(lambda_schedule)
    IN [k \in 1..(Len(inner) * Len(lf)) |->
           LET fmt_lambda == Fmt8(inner[((k - 1) \div Len(lf)) + 1])
               file == lf[((k - 1) % Len(lf)) + 1]
           IN <<ReplacePrefix(file, ref_lambda, fmt_lambda),
                Written(rewrite_file(src_inputs[file], fmt_lambda))>>]

RECURSIVE ApplyWrites(_, _)
ApplyWrites(fs, ws) ==
    IF ws = <<>> THEN fs ELSE ApplyWrites(WriteFile(fs, Head(ws)[1], Head(ws)[2]), Tail(ws))

\* {output_dir}/inputs after write_new_lambda_schedule, from an empty directory
ProjectedFiles(order) == ApplyWrites(EmptyDir, EndpointWrites(order) \o InteriorWrites(order))

\* C22: when the projection is complete, the files of the target parameter
\* directory and the lines of each are those that the projection yields for
\* every order in which the source parameter directory can be listed.
C22_OrderIndependent ==
    pc = "end_states" =>
        \A order \in Orders(DOMAIN src_inputs) : ProjectedFiles(order) = out_inputs

----------------------------------------------------------------------------
\* the first stage of state_order that write_group_files gives descriptors
FirstDescribed ==
    state_order[CHOOSE i \in 1..Len(state_order) :
                    /\ HasDescriptors(state_order[i])
                    /\ \A j \in 1..(i - 1) : ~HasDescriptors(state_order[j])]

\* C23: when write_group_files is done, the restart file that a descriptor reads
\* (-c) is the restart file that some descriptor of the same call writes (-r),
\* unless the descriptor is of the first stage that has descriptors.
C23_DependencyClosure ==
    pc = "done" =>
        \A p \in DOMAIN emitted :
            emitted[p].step # FirstDescribed =>
                \E q \in DOMAIN emitted : emitted[q].line.r = emitted[p].line.c

----------------------------------------------------------------------------
\* Edge.change_mdin_params.  A parameter line "key = value" of an mdin file is the
\* record [kind |-> "param", key, val].

Param(key, val) == [kind |-> "param", key |-> key, val |-> val]

Keys == {"nstlim", "ntwx"}

\* an mdin file of an edge before the call
MdinContent(tok) == <<Other(1), Param("nstlim", 1), Clambda(tok), Param("ntwx", 2)>>

MdinNames ==
    {ParamName(Tok0, "ti"), ParamName(RefInterior, "ti"), ParamName(Tok1, "ti"),
     ParamName(RefInterior, "eqATI"), ParamName(Tok1, "eqATI"), GroupFileName("t1", "ti")}

EdgeContent(name) == IF name.ext = "mdin" THEN MdinContent(name.tok) ELSE SrcGroupContent

\* the values of the argument endpoints: the booleans that change_all_params hands
\* over, and the default of the signature, the string "False"
EndpointsValues == {"True", "False", "default"}

\* the truth value of endpoints in "if not endpoints": a non-empty string is true
Truthy(e) == e \in {"True", "default"}

\* the stage names that the pattern "*{which}.mdin" matches: the ends of the name
Suffixes(step) ==
    CASE step = "ti" -> {"ti", "i"}
      [] step = "eqATI" -> {"eqATI", "ATI", "TI", "I"}
      [] OTHER -> {step}

WhichValues == {"all", "ti", "TI"}

\* the files that the glob patterns of change_mdin_params select
Selected(f) ==
    /\ f.ext = "mdin"
    /\ IF ~Truthy(endpoints)
       THEN which = "all" \/ which \in Suffixes(f.step)
       ELSE /\ f.tag = ""
            /\ f.tok \in {Tok0, Tok1}
            /\ which = "all" \/ which = f.step

\* "key in line"
KeyIn(key, line) == LineKind(line) = "param" /\ line.key = key

\* update_mdin
update_mdin(content, params) ==
    [i \in 1..Len(content) |->
        IF \E key \in DOMAIN params : KeyIn(key, content[i])
        THEN LET key == CHOOSE k \in DOMAIN params : KeyIn(k, content[i])
             IN Param(key, params[key])
        ELSE content[i]]

ChangeMdinParams ==
    /\ pc = "change"
    /\ IF DOMAIN new_params = {}
       THEN edge_inputs' = edge_inputs
       ELSE edge_inputs' =
                [sys \in Environments |->
                    [f \in DOMAIN edge_inputs[sys] |->
                        IF Selected(f)
                        THEN update_mdin(edge_inputs[sys][f], new_params)
                        ELSE edge_inputs[sys][f]]]
    /\ pc' = "changed"
    /\ UNCHANGED <<lambda_schedule, ntrials, gi, out_inputs, compile_vars, project_vars,
                   rewrite_vars, tree_vars, which, new_params, endpoints>>

InitChange ==
    /\ \E aq \in SUBSET MdinNames : \E com \in {{}, MdinNames} :
          edge_inputs = [sys \in Environments |->
                            [f \in (IF sys = "aq" THEN aq ELSE com) |-> EdgeContent(f)]]
    /\ which \in WhichValues
    /\ \E ks \in SUBSET Keys : new_params = [k \in ks |-> 5]
    /\ endpoints \in EndpointsValues
    /\ pc = "change"
    /\ lambda_schedule = <<0, One>>
    /\ ntrials = 1
    /\ gi = 1
    /\ gtrial = 1
    /\ out_inputs = EmptyDir
    /\ emitted = <<>>
    /\ run = 1
    /\ first_out = EmptyDir
    /\ src_inputs = EmptyDir
    /\ files = <<>>
    /\ endpoint_files = <<>>
    /\ lambda_files = <<>>
    /\ li = 1
    /\ input_dir_us = FALSE
    /\ src_tree = {}
    /\ out_tree = {}
    /\ rw_content = <<>>
    /\ rw_clambda = Tok0
    /\ rw_out = <<>>
    /\ rw_pass = 1
    /\ rw_orig = <<>>
    /\ rw_first = <<>>
    /\ rw_sched1 = <<>>

NextChange == ChangeMdinParams

SpecChange == InitChange /\ [][NextChange]_vars

\* the mdin files that the call is asked to update when endpoints-only is not requested
Matching(f) == f.ext = "mdin" /\ (which = "all" \/ which \in Suffixes(f.step))

IsEndpointName(f) == f.ext = "mdin" /\ f.tag = "" /\ f.tok \in {Tok0, Tok1}

EndpointsOnlyRequested == endpoints = "True"

\* the effect of one call, by the three cases of the endpoints option
AllMatchingUpdated ==
    \A sys \in Environments : \A f \in DOMAIN edge_inputs[sys] :
        Matching(f) => edge_inputs'[sys][f] = update_mdin(edge_inputs[sys][f], new_params)

OnlyEndpointsModified ==
    \A sys \in Environments : \A f \in DOMAIN edge_inputs[sys] :
        edge_inputs'[sys][f] # edge_inputs[sys][f] => IsEndpointName(f)

NothingModified == edge_inputs' = edge_inputs

\* C24: a call of change_mdin_params with an empty dictionary modifies no file;
\* otherwise, when endpoints-only is not requested (the default included) it
\* updates every matching mdin file of both environments, and when endpoints-only
\* is requested it modifies only files named 0.00000000_* or 1.00000000_*.
C24_EndpointsOption ==
    [][(pc = "change") =>
          IF DOMAIN new_params = {}
          THEN NothingModified
          ELSE IF EndpointsOnlyRequested THEN OnlyEndpointsModified ELSE AllMatchingUpdated]_vars

----------------------------------------------------------------------------
\* write_new_lambda_schedule, step by step inside the body of one file: the target
\* is opened for writing (created or truncated) before _rewrite_file is called, and
\* its lines are written after _rewrite_file has returned.

\* a line "mbar_lambda(x) = ..." whose index is no integer: int() raises ValueError
MalformedLambda == [kind |-> "malformed", idx |-> 0, val |-> 0]

\* _rewrite_file raises on this content
Raises(cont) == \E i \in 1..Len(cont) : LineKind(cont[i]) = "malformed"

BadContent(tok) == <<Other(1), Clambda(tok), States(3), MalformedLambda, Other(3)>>

WriteFiles == {ParamName(Tok0, "ti"), ParamName(RefInterior, "ti"), ParamName(Tok1, "ti")}

\* the target name of the file of the running loop
EndpointTarget == endpoint_files[gi]

InteriorTarget ==
    ReplacePrefix(lambda_files[gi], Prefix(lambda_files[1]), Fmt8(Interior(lambda_schedule)[li]))

\* open(target, "w")
OpenEndpoint ==
    /\ pc = "endpoints"
    /\ out_inputs' = WriteFile(out_inputs, EndpointTarget, <<>>)
    /\ pc' = "endpoint_open"
    /\ UNCHANGED <<params_vars, lambda_schedule, ntrials, gi, compile_vars, project_vars, rewrite_vars, tree_vars>>

\* _rewrite_file returns and the lines are written
FillEndpoint ==
    /\ pc = "endpoint_open"
    /\ ~Raises(src_inputs[endpoint_files[gi]])
    /\ LET file == endpoint_files[gi]
           cont == src_inputs[file]
           cl == IF Has0(file) THEN Tok0 ELSE Tok1
           outl == rewrite_file(cont, cl)
       IN /\ out_inputs' = WriteFile(out_inputs, EndpointTarget, Written(outl))
          /\ rw_content' = cont
          /\ rw_clambda' = cl
          /\ rw_out' = outl
          /\ UNCHANGED <<rw_pass, rw_orig, rw_first, rw_sched1>>
    /\ IF gi < Len(endpoint_files)
       THEN gi' = gi + 1 /\ pc' = "endpoints"
       ELSE gi' = 1 /\ pc' = EnterInterior
    /\ UNCHANGED <<params_vars, lambda_schedule, ntrials, compile_vars, project_vars, tree_vars>>

\* _rewrite_file raises: the with block closes the target and the error leaves
\* write_new_lambda_schedule
FailEndpoint ==
    /\ pc = "endpoint_open"
    /\ Raises(src_inputs[endpoint_files[gi]])
    /\ pc' = "error"
    /\ UNCHANGED <<params_vars, lambda_schedule, ntrials, gi, out_inputs, compile_vars, project_vars, rewrite_vars, tree_vars>>

OpenInterior ==
    /\ pc = "interior"
    /\ out_inputs' = WriteFile(out_inputs, InteriorTarget, <<>>)
    /\ pc' = "interior_open"
    /\ UNCHANGED <<params_vars, lambda_schedule, ntrials, gi, compile_vars, project_vars, rewrite_vars, tree_vars>>

FillInterior ==
    /\ pc = "interior_open"
    /\ ~Raises(src_inputs[lambda_files[gi]])
    /\ LET fmt_lambda == Fmt8(Interior(lambda_schedule)[li])
           cont == src_inputs[lambda_files[gi]]
           outl == rewrite_file(cont, fmt_lambda)
       IN /\ out_inputs' = WriteFile(out_inputs, InteriorTarget, Written(outl))
          /\ rw_content' = cont
          /\ rw_clambda' = fmt_lambda
          /\ rw_out' = outl
          /\ UNCHANGED <<rw_pass, rw_orig, rw_first, rw_sched1>>
    /\ IF gi < Len(lambda_files)
       THEN gi' = gi + 1 /\ li' = li /\ pc' = "interior"
       ELSE /\ gi' = 1
            /\ IF li < Len(Interior(lambda_schedule))
               THEN li' = li + 1 /\ pc' = "interior"
               ELSE li' = 1 /\ pc' = "end_states"
    /\ UNCHANGED <<params_vars, lambda_schedule, ntrials, compile_vars, src_inputs, files, endpoint_files,
                   lambda_files, input_dir_us, tree_vars>>

FailInterior ==
    /\ pc = "interior_open"
    /\ Raises(src_inputs[lambda_files[gi]])
    /\ pc' = "error"
    /\ UNCHANGED <<params_vars, lambda_schedule, ntrials, gi, out_inputs, compile_vars, project_vars, rewrite_vars, tree_vars>>

InitWrite ==
    /\ NoChange
    /\ lambda_schedule \in ValidSchedules(MaxEdgeLen)
    /\ ntrials = 1
    /\ \E names \in SUBSET WriteFiles : \E bad \in SUBSET names :
          src_inputs = [f \in names |-> IF f \in bad THEN BadContent(f.tok) ELSE ParamContent(f.tok, 3)]
    /\ pc = "find"
    /\ gi = 1
    /\ gtrial = 1
    /\ out_inputs = EmptyDir
    /\ emitted = <<>>
    /\ run = 1
    /\ first_out = EmptyDir
    /\ files = <<>>
    /\ endpoint_files = <<>>
    /\ lambda_files = <<>>
    /\ li = 1
    /\ input_dir_us = FALSE
    /\ src_tree = {}
    /\ out_tree = {}
    /\ rw_content = <<>>
    /\ rw_clambda = Tok0
    /\ rw_out = <<>>
    /\ rw_pass = 1
    /\ rw_orig = <<>>
    /\ rw_first = <<>>
    /\ rw_sched1 = <<>>

NextWrite ==
    \/ FindAllFiles
    \/ OpenEndpoint
    \/ FillEndpoint
    \/ FailEndpoint
    \/ OpenInterior
    \/ FillInterior
    \/ FailInterior

SpecWrite == InitWrite /\ [][NextWrite]_vars

\* the file holds all the lines that _rewrite_file returns for a source file that
\* it accepts, at a lambda of the schedule
HoldsCompleteRewrite(n) ==
    \E f \in DOMAIN src_inputs : \E i \in 1..Len(lambda_schedule) :
        /\ ~Raises(src_inputs[f])
        /\ out_inputs[n] = Written(rewrite_file(src_inputs[f], Fmt8(lambda_schedule[i])))

\* C25: at every point of write_new_lambda_schedule, a failure of _rewrite_file
\* included, every file that exists in the target parameter directory holds the
\* complete rewritten content of a source file.
C25_AllOrNothing == \A n \in DOMAIN out_inputs : HoldsCompleteRewrite(n)

====
